---- MODULE Spec2Model ----
(***************************************************************************)
(* A model of the Ishmael Insights API client                               *)
(* (src/src/ishmael_insights_api/client.py, errors.py).                     *)
(*                                                                          *)
(* Python strings are sequences of one-character strings, so that           *)
(* lower(), strip(), slicing and substring search act on characters.        *)
(* A Python value is a record [t, s, n, l]: t is the type tag, s the        *)
(* characters of a str, n the number of an int (the day number of a date,   *)
(* the epoch second of a datetime), l the elements of a list of str.        *)
(***************************************************************************)
EXTENDS Integers, Sequences, FiniteSets, TLC

VARIABLES
    client,   \* the client's configuration (api_key, base_url, timeout)
    call,     \* the last completed non-generator call: requests, responses, outcome
    gen       \* the generator objects returned by the iter_* methods

vars == <<client, call, gen>>

(***************************************************************************)
(* Bounds of the model.                                                     *)
(***************************************************************************)
\* length of the longest non-JSON body the server sends beyond the 200
\* characters the error message keeps
MaxExtra == 2
\* number of elements / requests the history of a generator records
MaxLog == 3

(***************************************************************************)
(* Characters and strings.                                                  *)
(***************************************************************************)
UpperCase == <<"A", "B", "C", "D", "E", "F", "G", "H", "I", "J", "K", "L", "M",
               "N", "O", "P", "Q", "R", "S", "T", "U", "V", "W", "X", "Y", "Z">>
LowerCase == <<"a", "b", "c", "d", "e", "f", "g", "h", "i", "j", "k", "l", "m",
               "n", "o", "p", "q", "r", "s", "t", "u", "v", "w", "x", "y", "z">>
Digits == <<"0", "1", "2", "3", "4", "5", "6", "7", "8", "9">>

\* F(e), with e evaluated once: a variable bound in a one-element set holds
\* the value of e, where an operator's argument is evaluated at each use
Once(e, F(_)) == CHOOSE y \in {F(x) : x \in {e}} : TRUE

Min(a, b) == IF a <= b THEN a ELSE b
Max(a, b) == IF a >= b THEN a ELSE b

\* str.lower(), one character
LowerChar(c) ==
    IF \E i \in 1..26 : UpperCase[i] = c
    THEN LowerCase[CHOOSE i \in 1..26 : UpperCase[i] = c]
    ELSE c

\* str.lower()
StrLower(s) == Once(s, LAMBDA t : [i \in 1..Len(t) |-> LowerChar(t[i])])

IsSpace(c) == c \in {" ", "\t", "\n"}

\* str.strip()
Strip(s) ==
    IF \A i \in 1..Len(s) : IsSpace(s[i]) THEN << >>
    ELSE SubSeq(s,
                CHOOSE i \in 1..Len(s) :
                    ~IsSpace(s[i]) /\ \A j \in 1..(i - 1) : IsSpace(s[j]),
                CHOOSE i \in 1..Len(s) :
                    ~IsSpace(s[i]) /\ \A j \in (i + 1)..Len(s) : IsSpace(s[j]))

\* s[:n]
Slice(s, n) == SubSeq(s, 1, Min(n, Len(s)))

\* sub in s
Contains(s, sub) ==
    \E t \in {s} :
        \E i \in 0..(Len(t) - Len(sub)) : SubSeq(t, i + 1, i + Len(sub)) = sub

\* s.replace(a, b) for a one-character a
ReplaceChar(s, a, b) ==
    LET F[i \in 0..Len(s)] ==
            IF i = 0 THEN << >>
            ELSE F[i - 1] \o (IF s[i] = a THEN b ELSE <<s[i]>>)
    IN  F[Len(s)]

IsDigit(c) == \E i \in 1..10 : Digits[i] = c
DigitVal(c) == (CHOOSE i \in 1..10 : Digits[i] = c) - 1
AllDigits(s) == \A i \in 1..Len(s) : IsDigit(s[i])

\* int(s) for a string of digits
RECURSIVE ParseNat(_)
ParseNat(s) ==
    IF s = << >> THEN 0
    ELSE 10 * ParseNat(SubSeq(s, 1, Len(s) - 1)) + DigitVal(s[Len(s)])

\* str(n) for an int
RECURSIVE NatStr(_)
NatStr(n) == IF n < 10 THEN <<Digits[n + 1]>>
             ELSE NatStr(n \div 10) \o <<Digits[(n % 10) + 1]>>
IntStr(n) == IF n < 0 THEN <<"-">> \o NatStr(0 - n) ELSE NatStr(n)

\* "%0*d"
RECURSIVE ZeroPad(_, _)
ZeroPad(s, width) == IF Len(s) >= width THEN s ELSE ZeroPad(<<"0">> \o s, width)

(***************************************************************************)
(* Python values.                                                           *)
(***************************************************************************)
PyNone == [t |-> "none", s |-> << >>, n |-> 0, l |-> << >>]
\* a key that a JSON object does not have
Absent == [t |-> "absent", s |-> << >>, n |-> 0, l |-> << >>]
PyStr(chars) == [t |-> "str", s |-> chars, n |-> 0, l |-> << >>]
PyInt(k) == [t |-> "int", s |-> << >>, n |-> k, l |-> << >>]
PyDate(days) == [t |-> "date", s |-> << >>, n |-> days, l |-> << >>]
PyDateTime(epoch) == [t |-> "datetime", s |-> << >>, n |-> epoch, l |-> << >>]
PyList(elems) == [t |-> "list", s |-> << >>, n |-> 0, l |-> elems]

\* bool(v)
Truthy(v) ==
    CASE v.t = "none" -> FALSE
      [] v.t = "absent" -> FALSE
      [] v.t = "str" -> v.s # << >>
      [] v.t = "int" -> v.n # 0
      [] v.t = "list" -> v.l # << >>
      [] OTHER -> TRUE

\* dict.get(key): a missing key reads as None
DictGet(v) == IF v.t = "absent" THEN PyNone ELSE v

\* a or b
PyOr(a, b) == IF Truthy(a) THEN a ELSE b

(***************************************************************************)
(* Calendar dates: date and datetime of the standard library, as days and   *)
(* seconds since 1970-01-01 (proleptic Gregorian calendar).                 *)
(***************************************************************************)
SecondsPerDay == 24 * 60 * 60

\* date.fromordinal: the civil date of a day number, by the day of the
\* 400-year era (doe), the year of the era (yoe), the day of the year counted
\* from March 1 (doy) and the month counted from March (mp)
CivilOfMonth(era, yoe, doy, mp) ==
    [y |-> yoe + era * 400 + (IF mp >= 10 THEN 1 ELSE 0),
     m |-> IF mp < 10 THEN mp + 3 ELSE mp - 9,
     d |-> doy - (153 * mp + 2) \div 5 + 1]
CivilOfYearDay(era, yoe, doy) == CivilOfMonth(era, yoe, doy, (5 * doy + 2) \div 153)
CivilOfYear(era, doe, yoe) ==
    CivilOfYearDay(era, yoe, doe - (365 * yoe + yoe \div 4 - yoe \div 100))
CivilOfEra(era, doe) ==
    CivilOfYear(era, doe,
                (doe - doe \div 1460 + doe \div 36524 - doe \div 146096) \div 365)
CivilOfShifted(z) == Once(z % 146097, LAMBDA doe : CivilOfEra(z \div 146097, doe))
CivilFromDays(days) == Once(days + 719468, CivilOfShifted)

\* date(y, m, d).toordinal(), counted from 1970-01-01
DaysOfEra(era, yoe, doy) ==
    era * 146097 + (yoe * 365 + yoe \div 4 - yoe \div 100 + doy) - 719468
DaysOfYear(yy, doy) == DaysOfEra(yy \div 400, yy % 400, doy)
DaysFromCivil(y, m, d) ==
    DaysOfYear(IF m <= 2 THEN y - 1 ELSE y,
               (153 * (IF m > 2 THEN m - 3 ELSE m + 9) + 2) \div 5 + d - 1)

IsLeap(y) == (y % 4 = 0) /\ ((y % 100 # 0) \/ (y % 400 = 0))
DaysInMonth(y, m) ==
    IF m = 2 THEN (IF IsLeap(y) THEN 29 ELSE 28)
    ELSE IF m \in {4, 6, 9, 11} THEN 30 ELSE 31

\* date.isoformat()
CivilIso(c) ==
    ZeroPad(NatStr(c.y), 4) \o <<"-">> \o ZeroPad(NatStr(c.m), 2)
        \o <<"-">> \o ZeroPad(NatStr(c.d), 2)
DateIso(days) == Once(CivilFromDays(days), CivilIso)

\* datetime.isoformat() of a datetime in UTC
TimeIso(sod) ==
    ZeroPad(NatStr(sod \div 3600), 2) \o <<":">>
        \o ZeroPad(NatStr((sod % 3600) \div 60), 2) \o <<":">>
        \o ZeroPad(NatStr(sod % 60), 2)
DateTimeIso(epoch) ==
    DateIso(epoch \div SecondsPerDay) \o <<"T">> \o TimeIso(epoch % SecondsPerDay)
        \o <<"+", "0", "0", ":", "0", "0">>

\* str(value)
ToStr(v) ==
    CASE v.t = "str" -> v.s
      [] v.t = "int" -> IntStr(v.n)
      [] v.t = "date" -> DateIso(v.n)
      [] v.t = "none" -> <<"N", "o", "n", "e">>
      [] OTHER -> v.s

_isoish(value) ==
    IF value.t = "datetime" THEN PyStr(DateTimeIso(value.n))
    ELSE IF value.t = "date" THEN PyStr(DateIso(value.n))
    ELSE PyStr(ToStr(value))

_unixish(value) ==
    IF value.t = "datetime" THEN PyInt(value.n) ELSE value

\* date.fromisoformat / date(y, m, d) of three digit strings: a date, or ValueError
DateOrError(y, m, d) ==
    IF y >= 1 /\ m >= 1 /\ m <= 12 /\ d >= 1 /\ d <= DaysInMonth(y, m)
    THEN [ok |-> TRUE, days |-> DaysFromCivil(y, m, d)]
    ELSE [ok |-> FALSE, days |-> 0]
DateFromParts(ys, ms, ds) ==
    IF ~(AllDigits(ys) /\ AllDigits(ms) /\ AllDigits(ds))
    THEN [ok |-> FALSE, days |-> 0]
    ELSE DateOrError(ParseNat(ys), ParseNat(ms), ParseNat(ds))

\* datetime.fromisoformat(s).date() for a string the fast path of
\* _coerce_date did not take: only the basic format YYYYMMDD is left
DateTimeFromIso(s) ==
    IF Len(s) = 8 /\ AllDigits(s)
    THEN DateFromParts(SubSeq(s, 1, 4), SubSeq(s, 5, 6), SubSeq(s, 7, 8))
    ELSE [ok |-> FALSE, days |-> 0]

\* the date, or ok = FALSE where the code raises ValueError
\* _coerce_date of the stripped text s of a value that is no date
CoerceText(s) ==
    IF s = << >> THEN [ok |-> FALSE, days |-> 0]
    ELSE IF Len(s) >= 10 /\ s[5] = "-" /\ s[8] = "-"
    THEN DateFromParts(SubSeq(s, 1, 4), SubSeq(s, 6, 7), SubSeq(s, 9, 10))
    ELSE DateTimeFromIso(ReplaceChar(s, "Z", <<"+", "0", "0", ":", "0", "0">>))

_coerce_date(value) ==
    IF value.t = "datetime" THEN [ok |-> TRUE, days |-> value.n \div SecondsPerDay]
    ELSE IF value.t = "date" THEN [ok |-> TRUE, days |-> value.n]
    ELSE CoerceText(Strip(ToStr(value)))

(***************************************************************************)
(* Time zones: zoneinfo.ZoneInfo.  A zone is its offset from UTC in seconds *)
(* and the instants (epoch seconds) at which the offset changes.            *)
(***************************************************************************)
TzUTC == <<"U", "T", "C">>
TzNewYork == <<"A", "m", "e", "r", "i", "c", "a", "/", "N", "e", "w", "_", "Y", "o", "r", "k">>
TzKolkata == <<"A", "s", "i", "a", "/", "K", "o", "l", "k", "a", "t", "a">>

\* the keys the time zone database has; ZoneInfo raises on any other
KnownZones == {TzUTC, TzNewYork, TzKolkata}

\* America/New_York in 2024: EST, EDT from 2024-03-10 07:00 UTC,
\* EST again from 2024-11-03 06:00 UTC
ZoneData(key) ==
    IF key = TzNewYork
    THEN [base |-> 0 - 5 * 3600,
          trans |-> <<[at |-> 1710054000, off |-> 0 - 4 * 3600],
                      [at |-> 1730613600, off |-> 0 - 5 * 3600]>>]
    ELSE IF key = TzKolkata
    THEN [base |-> 5 * 3600 + 1800, trans |-> << >>]
    ELSE [base |-> 0, trans |-> << >>]

\* the offset in force before transition i of a zone
OffsetBefore(zone, i) == IF i = 1 THEN zone.base ELSE zone.trans[i - 1].off

\* utcoffset() of an instant
\* the offset after the last of the transitions `past`
OffsetAfter(zone, past) ==
    IF past = {} THEN zone.base
    ELSE zone.trans[CHOOSE i \in past : \A j \in past : j <= i].off

UtcOffsetAt(zone, t) ==
    OffsetAfter(zone, {i \in 1..Len(zone.trans) : zone.trans[i].at <= t})

\* utcoffset() of a wall-clock time (fold = 0): a transition is in force
\* from the first wall-clock time that can only be read after it
WallOffset(zone, wall) ==
    OffsetAfter(zone, {i \in 1..Len(zone.trans) :
        zone.trans[i].at + Max(OffsetBefore(zone, i), zone.trans[i].off) <= wall})

\* datetime.timestamp() of a wall-clock time in a zone
WallTimestamp(zone, wall) == wall - WallOffset(zone, wall)

\* ZoneInfo(tz), with UTC for a key it does not have
ZoneOfKey(tz) == IF tz \in KnownZones THEN ZoneData(tz) ELSE ZoneData(TzUTC)
ZoneOrUTC(timezone_name) ==
    ZoneOfKey(IF Truthy(timezone_name) THEN timezone_name.s ELSE TzUTC)

\* the day's bounds with the end reckoned in elapsed seconds, not on the wall clock
ElapsedBoundsFrom(start) == <<start, start + SecondsPerDay - 1>>
ElapsedDayEpochBounds(day, timezone_name) ==
    Once(WallTimestamp(ZoneOrUTC(timezone_name), day * SecondsPerDay), ElapsedBoundsFrom)

\* start = datetime(day, 00:00:00, zone); end = start + 1 day - 1 second
\* (arithmetic on the wall clock); their timestamps
WallBounds(zone, start) ==
    <<WallTimestamp(zone, start), WallTimestamp(zone, start + SecondsPerDay - 1)>>
_local_day_epoch_bounds(day, timezone_name) ==
    Once(ZoneOrUTC(timezone_name), LAMBDA zone : WallBounds(zone, day * SecondsPerDay))

\* ",".join(parts)
RECURSIVE Join(_)
Join(parts) ==
    IF parts = << >> THEN << >>
    ELSE IF Len(parts) = 1 THEN parts[1]
    ELSE parts[1] \o <<",">> \o Join(Tail(parts))

\* [str(v).strip() for v in values if str(v).strip()]
RECURSIVE StrippedNonEmpty(_)
StrippedNonEmpty(elems) ==
    IF elems = << >> THEN << >>
    ELSE (IF Strip(elems[1]) = << >> THEN << >> ELSE <<Strip(elems[1])>>)
            \o StrippedNonEmpty(Tail(elems))

_csv(values) ==
    IF values.t = "none" THEN PyNone
    ELSE IF values.t = "str"
    THEN (IF Strip(values.s) = << >> THEN PyNone ELSE PyStr(Strip(values.s)))
    ELSE IF StrippedNonEmpty(values.l) = << >> THEN PyNone
    ELSE PyStr(Join(StrippedNonEmpty(values.l)))

(***************************************************************************)
(* What the server sends.  A body is a JSON object (kind "dict") with the   *)
(* fields the client reads, some other JSON value (kind "json"), or text    *)
(* that is not JSON (kind "text").  An absent field has the value Absent.   *)
(***************************************************************************)
\* the substring get_games looks for in the message of a 400
FallbackNeedle == <<"s", "t", "a", "r", "t", "_", "d", "a", "t", "e", " ", "a", "n", "d", " ", "e", "n", "d", "_", "d", "a", "t", "e">>
\* the number of characters of a non-JSON body kept as the error message
MsgLimit == 200

SBadKey == <<"b", "a", "d", " ", "k", "e", "y">>
SNotFound == <<"n", "o", "t", " ", "f", "o", "u", "n", "d">>
SPlain == <<"p", "l", "a", "i", "n", " ", "t", "e", "x", "t", " ", "f", "a", "i", "l", "u", "r", "e">>
SNeedLower == <<"n", "e", "e", "d", " ", "s", "t", "a", "r", "t", "_", "d", "a", "t", "e", " ", "a", "n", "d", " ", "e", "n", "d", "_", "d", "a", "t", "e">>
SNeedUpper == <<"N", "e", "e", "d", " ", "S", "T", "A", "R", "T", "_", "D", "A", "T", "E", " ", "a", "n", "d", " ", "E", "n", "d", "_", "D", "a", "t", "e">>
SBlank == <<" ", "\n", "\t">>
SNba == <<"n", "b", "a">>
SAll == <<"a", "l", "l">>
SCid == <<"0", "x", "a">>
SC1 == <<"c", "1">>
SC2 == <<"c", "2">>
SMars == <<"M", "a", "r", "s", "/", "P", "h", "o", "b", "o", "s">>

\* a text of n characters, no two neighbours alike
LongText(n) == [i \in 1..n |-> <<"a", "b", "c">>[(i % 3) + 1]]

\* an element of a page: a JSON object {key: val}, or a value that is no object
ItemDict(key, val) == [m |-> "dict", key |-> key, of |-> "int", val |-> val]
ItemInt(val) == [m |-> "int", key |-> "", of |-> "", val |-> val]
ItemNull == [m |-> "none", key |-> "", of |-> "", val |-> 0]

\* the `items` field: absent, a list, or a value that is not a list
NoItems == [t |-> "absent", l |-> << >>]
ItemList(l) == [t |-> "list", l |-> l]
ItemsNotList == [t |-> "other", l |-> << >>]

DictBody(error, message, items, next_cursor) ==
    [kind |-> "dict", error |-> error, message |-> message, items |-> items,
     next_cursor |-> next_cursor, text |-> << >>]
TextBody(text) ==
    [kind |-> "text", error |-> Absent, message |-> Absent, items |-> NoItems,
     next_cursor |-> Absent, text |-> text]
JsonBody ==
    [kind |-> "json", error |-> Absent, message |-> Absent, items |-> NoItems,
     next_cursor |-> Absent, text |-> << >>]

\* the reason phrase of a status line
Reason(status) ==
    IF status = 200 THEN <<"O", "K">>
    ELSE IF status = 400 THEN <<"B", "a", "d", " ", "R", "e", "q", "u", "e", "s", "t">>
    ELSE <<"I", "n", "t", "e", "r", "n", "a", "l", " ", "S", "e", "r", "v", "e", "r", " ", "E", "r", "r", "o", "r">>

Statuses == {200, 400, 500}

ErrorFields == {Absent, PyNone, PyStr(<< >>), PyInt(0), PyStr(SBadKey),
                PyStr(SNeedLower), PyStr(SNeedUpper)}
MessageFields == {Absent, PyStr(<< >>), PyStr(SNotFound), PyStr(SNeedLower)}

Texts == {<< >>, SBlank, SPlain, SNeedLower}
            \cup {LongText(n) : n \in (MsgLimit - 1)..(MsgLimit + MaxExtra)}

ErrorBodies ==
    {DictBody(e, m, NoItems, Absent) : e \in ErrorFields, m \in MessageFields}
        \cup {TextBody(x) : x \in Texts} \cup {JsonBody}

Response(status, body) == [status |-> status, reason |-> Reason(status), body |-> body]

(***************************************************************************)
(* IshmaelInsightsAPIError and _request.                                    *)
(***************************************************************************)
\* what response.json() / response.text leave in `payload`
PayloadOf(body) ==
    IF body.kind = "text"
    THEN [kind |-> "str", error |-> Absent, message |-> Absent, items |-> NoItems,
          next_cursor |-> Absent, text |-> body.text]
    ELSE body

\* the message that looks at the `message` field before the `error` field
MessageOfMessageFirst(resp) ==
    IF resp.body.kind = "dict"
        THEN ToStr(PyOr(DictGet(resp.body.message),
                    PyOr(DictGet(resp.body.error), PyStr(resp.reason))))
    ELSE IF resp.body.kind = "text" /\ Strip(resp.body.text) # << >>
    THEN Slice(resp.body.text, MsgLimit)
    ELSE resp.reason

\* the message that keeps the whole of a non-JSON body
MessageOfUntruncated(resp) ==
    IF resp.body.kind = "dict"
        THEN ToStr(PyOr(DictGet(resp.body.error),
                    PyOr(DictGet(resp.body.message), PyStr(resp.reason))))
    ELSE IF resp.body.kind = "text" /\ Strip(resp.body.text) # << >>
    THEN resp.body.text
    ELSE resp.reason

\* `message` after the try block of _request
MessageOf(resp) ==
    IF resp.body.kind = "dict"
        THEN ToStr(PyOr(DictGet(resp.body.error),
                    PyOr(DictGet(resp.body.message), PyStr(resp.reason))))
    ELSE IF resp.body.kind = "text" /\ Strip(resp.body.text) # << >>
    THEN Slice(resp.body.text, MsgLimit)
    ELSE resp.reason

\* the filter that drops every falsy value, not only None
SentParamsTruthy(params) ==
    Once(params, LAMBDA p : [k \in {j \in DOMAIN p : Truthy(p[j])} |-> p[k]])

\* the parameters handed to session.request
SentParams(params) ==
    Once(params, LAMBDA p : [k \in {j \in DOMAIN p : p[j].t # "none"} |-> p[k]])

NoParams == [k \in {} |-> PyNone]

IshmaelInsightsAPIError(status_code, message, payload) ==
    [kind |-> "APIError", status_code |-> status_code, message |-> message,
     payload |-> payload, wrapped |-> FALSE]

ValueError ==
    [kind |-> "ValueError", status_code |-> 0, message |-> << >>,
     payload |-> PayloadOf(JsonBody), wrapped |-> FALSE]

\* the return that hands back `payload` as it is, wrapped or not
ReturnedBare(payload, wrapped) ==
    [kind |-> "return", status_code |-> 0, message |-> << >>,
     payload |-> payload, wrapped |-> FALSE]

\* `return payload`, or `return {"ok": True, "raw": payload}` when wrapped
Returned(payload, wrapped) ==
    [kind |-> "return", status_code |-> 0, message |-> << >>,
     payload |-> payload, wrapped |-> wrapped]

\* _request: the request it transmits, and how it ends on response resp
_request(method, path, params, resp) ==
    [req |-> [method |-> method, path |-> path, params |-> params,
              sent |-> SentParams(params)],
     out |-> IF resp.status >= 400
             THEN IshmaelInsightsAPIError(resp.status, MessageOf(resp), PayloadOf(resp.body))
             ELSE Returned(PayloadOf(resp.body), resp.body.kind # "dict")]

(***************************************************************************)
(* The client object and the calls that return a value.                     *)
(***************************************************************************)
\* base_url.rstrip("/")
RECURSIVE RStripSlash(_)
RStripSlash(s) ==
    IF s # << >> /\ s[Len(s)] = "/" THEN RStripSlash(SubSeq(s, 1, Len(s) - 1)) ELSE s

\* IshmaelInsightsAPI.__init__
NewClient(api_key, base_url) ==
    [api_key |-> api_key, base_url |-> RStripSlash(base_url), timeout |-> 30]

NoOutcome ==
    [kind |-> "none", status_code |-> 0, message |-> << >>,
     payload |-> PayloadOf(JsonBody), wrapped |-> FALSE]

NoCall == [op |-> "none", args |-> NoParams, reqs |-> << >>, resps |-> << >>,
           out |-> NoOutcome]

\* every response the server may give to a call that returns a value
Responses ==
    {Response(st, b) : st \in Statuses, b \in ErrorBodies}
        \cup {Response(st, DictBody(Absent, Absent, ItemList(<<ItemDict("id", 1)>>), c)) :
                st \in Statuses, c \in {Absent, PyStr(SC1)}}

\* A behaviour observes one call from its start to its end: the client keeps
\* nothing from one call to the next.
\* the call raised ValueError before its first request
Rejected(op, args) ==
    /\ call = NoCall
    /\ call' = [op |-> op, args |-> args, reqs |-> << >>, resps |-> << >>,
                out |-> ValueError]
    /\ UNCHANGED <<client, gen>>

\* what a call leaves behind: g holds its requests, responses and outcome
CallOf(op, args, g) ==
    [op |-> op, args |-> args, reqs |-> g.reqs, resps |-> g.resps, out |-> g.out]

\* one request r answered by resp
OneRequest(r, resp) == [reqs |-> <<r.req>>, resps |-> <<resp>>, out |-> r.out]

\* the call made one request and ended as _request ended
Requested(op, args, method, path, params) ==
    /\ call = NoCall
    /\ \E resp \in Responses :
        \E r \in {_request(method, path, params, resp)} :
          call' = CallOf(op, args, OneRequest(r, resp))
    /\ UNCHANGED <<client, gen>>

\* str(v) if v is not None else None
StrOrNone(v) == IF v.t # "none" THEN PyStr(ToStr(v)) ELSE PyNone
\* _isoish(v) if v is not None else None
IsoOrNone(v) == IF v.t # "none" THEN _isoish(v) ELSE PyNone

auth_check == Requested("auth_check", NoParams, "POST", "/auth/check", NoParams)

get_predictions ==
    \E time \in {PyInt(1710000000), PyDateTime(1710113400)},
       condition_id \in {PyNone, PyStr(SCid)},
       team_id \in {PyNone, PyInt(0)},
       tag \in {PyNone, PyStr(SBlank), PyList(<<SNba, SBlank, <<" ", "x">> >>)},
       limit \in {PyNone, PyInt(50)} :
        LET args == [time |-> time, slug |-> PyNone, condition_id |-> condition_id,
                     team_id |-> team_id, tag |-> tag, tags_mode |-> PyNone,
                     cursor |-> PyNone, limit |-> limit]
            params == [time |-> _unixish(time), slug |-> args.slug,
                       condition_id |-> condition_id,
                       team_id |-> StrOrNone(team_id),
                       tag |-> _csv(tag), tags_mode |-> args.tags_mode,
                       cursor |-> args.cursor, limit |-> limit]
        IN  Requested("get_predictions", args, "GET", "/predictions", params)

get_predictions_history ==
    \E condition_id \in {PyNone, PyStr(<< >>), PyStr(SCid)},
       strategy_id \in {PyNone, PyStr(SAll)} :
        LET args == [condition_id |-> condition_id, strategy_id |-> strategy_id,
                     outcome |-> PyNone]
        IN  IF ~Truthy(condition_id)
            THEN Rejected("get_predictions_history", args)
            ELSE Requested("get_predictions_history", args, "GET",
                           "/predictions-history", args)

get_price_history ==
    \E condition_id \in {PyNone, PyStr(<< >>), PyStr(SCid)} :
        LET args == [condition_id |-> condition_id]
        IN  IF ~Truthy(condition_id)
            THEN Rejected("get_price_history", args)
            ELSE Requested("get_price_history", args, "GET", "/price-history", args)

get_game ==
    \E condition_id \in {PyNone, PyStr(<< >>), PyStr(SCid)},
       league \in {PyNone, PyStr(SNba)},
       game_date \in {PyNone, PyDate(19792)},
       team_a_id \in {PyNone, PyInt(0)},
       team_b_id \in {PyNone, PyStr(<<"7">>)} :
        LET args == [condition_id |-> condition_id, league |-> league,
                     game_date |-> game_date, team_a_id |-> team_a_id,
                     team_b_id |-> team_b_id]
            has_condition == Truthy(condition_id)
            has_composite == \A v \in {league, game_date, team_a_id, team_b_id} :
                                v.t # "none"
            params == [condition_id |-> condition_id, league |-> league,
                       game_date |-> IsoOrNone(game_date),
                       team_a_id |-> StrOrNone(team_a_id),
                       team_b_id |-> StrOrNone(team_b_id)]
        IN  IF ~has_condition /\ ~has_composite
            THEN Rejected("get_game", args)
            ELSE Requested("get_game", args, "GET", "/game", params)

get_teams ==
    \E limit \in {PyNone, PyInt(0), PyInt(100)}, cursor \in {PyNone, PyStr(<< >>), PyStr(SC1)} :
        LET args == [league |-> PyStr(SNba), limit |-> limit, cursor |-> cursor]
        IN  Requested("get_teams", args, "GET", "/teams", args)

get_team ==
    \E team_id \in {PyNone, PyInt(0), PyInt(7)},
       name \in {PyNone, PyStr(<< >>), PyStr(<<"L", "A">>)},
       abbreviation \in {PyNone, PyStr(<<"L", "A", "L">>)},
       league \in {PyNone, PyStr(SNba)} :
        LET args == [team_id |-> team_id, name |-> name,
                     abbreviation |-> abbreviation, league |-> league]
            params == [team_id |-> StrOrNone(team_id), name |-> name,
                       abbreviation |-> abbreviation, league |-> league]
        IN  IF ~(\E v \in {team_id, name, abbreviation} : Truthy(v))
            THEN Rejected("get_team", args)
            ELSE Requested("get_team", args, "GET", "/team", params)

get_markets ==
    \E source \in {PyNone, PyStr(SAll)}, q \in {PyNone, PyStr(<< >>)},
       limit \in {PyNone, PyInt(50)}, cursor \in {PyNone, PyStr(SC1)} :
        LET args == [source |-> source, status |-> PyNone, q |-> q,
                     search |-> PyNone, limit |-> limit, cursor |-> cursor]
        IN  Requested("get_markets", args, "GET", "/markets", args)

get_market ==
    \E source \in {PyNone, PyStr(SAll)},
       condition_id \in {PyNone, PyStr(<< >>), PyStr(SCid)},
       slug \in {PyNone, PyStr(<<"s">>)},
       ticker \in {PyNone, PyStr(<< >>)},
       polymarket_id \in {PyNone, PyInt(0)} :
        LET args == [source |-> source, condition_id |-> condition_id, slug |-> slug,
                     ticker |-> ticker, polymarket_id |-> polymarket_id]
            params == [source |-> source, condition_id |-> condition_id, slug |-> slug,
                       ticker |-> ticker, polymarket_id |-> StrOrNone(polymarket_id)]
        IN  IF ~(Truthy(condition_id) \/ Truthy(slug) \/ Truthy(ticker)
                    \/ polymarket_id.t # "none")
            THEN Rejected("get_market", args)
            ELSE Requested("get_market", args, "GET", "/market", params)

(***************************************************************************)
(* get_games and its day-range fallback.                                    *)
(***************************************************************************)
SIsoZ == <<"2", "0", "2", "4", "-", "0", "3", "-", "1", "0", "T", "2", "3", ":", "3", "0", ":", "0", "0", "Z">>
SPadded == <<" ", "2", "0", "2", "4", "-", "1", "1", "-", "0", "3", " ">>
STomorrow == <<"t", "o", "m", "o", "r", "r", "o", "w">>
SFeb30 == <<"2", "0", "2", "4", "-", "0", "2", "-", "3", "0">>

\* 2024-03-09, 2024-03-10 and 2024-11-03 as day numbers: an ordinary day and
\* the two days on which New York changes its clocks
Mar09 == DaysFromCivil(2024, 3, 9)
Mar10 == DaysFromCivil(2024, 3, 10)
Nov03 == DaysFromCivil(2024, 11, 3)

GameDates ==
    {PyNone, PyDate(Mar09), PyDate(Mar10), PyDate(Nov03), PyDateTime(1710113400),
     PyStr(SIsoZ), PyStr(SPadded), PyStr(<< >>), PyStr(STomorrow), PyStr(SFeb30)}

Timezones == {PyNone, PyStr(<< >>), PyStr(TzNewYork), PyStr(TzKolkata), PyStr(SMars)}

\* team_ids, limit, min_volume, cursor of a get_games call
OtherGamesArgs ==
    {[team_ids |-> PyNone, limit |-> PyInt(50), min_volume |-> PyNone, cursor |-> PyNone],
     [team_ids |-> PyList(<<<<"1">>, <<" ", "2">>>>), limit |-> PyInt(0),
      min_volume |-> PyInt(0), cursor |-> PyStr(<< >>)]}

GamesArgs(game_date, timezone, start_date, end_date, o) ==
    [league |-> PyStr(SNba), game_date |-> game_date, timezone |-> timezone,
     start_date |-> start_date, end_date |-> end_date, team_ids |-> o.team_ids,
     limit |-> o.limit, min_volume |-> o.min_volume, cursor |-> o.cursor]

\* what the server may answer to the retry
RetryResponses ==
    {Response(200, DictBody(Absent, Absent, ItemList(<<ItemDict("id", 1)>>), Absent)),
     Response(200, DictBody(Absent, Absent, ItemList(<<ItemInt(5)>>), PyStr(SC1))),
     Response(200, TextBody(SPlain)),
     Response(400, DictBody(PyStr(SNeedLower), Absent, NoItems, Absent)),
     Response(400, TextBody(SNeedLower)),
     Response(500, DictBody(PyStr(SBadKey), Absent, NoItems, Absent))}

\* the mistaken test: one bound given is enough
GamesArgsInvalidLax(a) ==
    a.game_date.t = "none" /\ (a.start_date.t = "none" /\ a.end_date.t = "none")

\* the test of get_games and iter_games that raises ValueError
GamesArgsInvalid(a) ==
    a.game_date.t = "none" /\ (a.start_date.t = "none" \/ a.end_date.t = "none")

\* the parameters that leave the range out when a day is given
GamesParamsExclusive(a) ==
    [league |-> a.league, game_date |-> IsoOrNone(a.game_date),
     timezone |-> a.timezone,
     start_date |-> IF a.game_date.t # "none" THEN PyNone ELSE IsoOrNone(a.start_date),
     end_date |-> IF a.game_date.t # "none" THEN PyNone ELSE IsoOrNone(a.end_date),
     team_ids |-> _csv(a.team_ids),
     limit |-> a.limit, min_volume |-> a.min_volume, cursor |-> a.cursor]

GamesParams(a) ==
    [league |-> a.league, game_date |-> IsoOrNone(a.game_date),
     timezone |-> a.timezone, start_date |-> IsoOrNone(a.start_date),
     end_date |-> IsoOrNone(a.end_date), team_ids |-> _csv(a.team_ids),
     limit |-> a.limit, min_volume |-> a.min_volume, cursor |-> a.cursor]

\* the condition that does not look at the status code
FallbackAppliesAnyStatus(a, out) ==
    /\ out.kind = "APIError"
    /\ a.game_date.t # "none"
    /\ a.start_date.t = "none"
    /\ a.end_date.t = "none"
    /\ Contains(StrLower(out.message), FallbackNeedle)

\* the condition of the except clause of get_games
FallbackApplies(a, out) ==
    /\ out.kind = "APIError"
    /\ a.game_date.t # "none"
    /\ a.start_date.t = "none"
    /\ a.end_date.t = "none"
    /\ out.status_code = 400
    /\ Contains(StrLower(out.message), FallbackNeedle)

FallbackParams(params, bounds) ==
    [params EXCEPT !.game_date = PyNone, !.timezone = PyNone,
                   !.start_date = PyInt(bounds[1]), !.end_date = PyInt(bounds[2])]

\* the first request failed with ValueError raised while handling its error
RaisedAfter(first, r1) == [reqs |-> <<first.req>>, resps |-> <<r1>>, out |-> ValueError]

\* the first request and the retry
TwoRequests(first, second, r1, r2) ==
    [reqs |-> <<first.req, second.req>>, resps |-> <<r1, r2>>, out |-> second.out]

\* the last statements of the except clause: the retry with the bounds of the day
RetryWith(params, first, bounds, r1, r2) ==
    Once(_request("GET", "/games", FallbackParams(params, bounds), r2),
         LAMBDA second : TwoRequests(first, second, r1, r2))

\* the body of the `if` of the except clause: day = _coerce_date(game_date), ...
Retry(params, first, day, timezone, r1, r2) ==
    IF ~day.ok THEN RaisedAfter(first, r1)
    ELSE Once(_local_day_epoch_bounds(day.days, timezone),
              LAMBDA bounds : RetryWith(params, first, bounds, r1, r2))

\* the try statement of get_games once the first request has ended as `first`
AfterFirst(a, params, first, r1, r2) ==
    IF ~FallbackApplies(a, first.out) THEN OneRequest(first, r1)
    ELSE Once(_coerce_date(a.game_date),
              LAMBDA day : Retry(params, first, day, a.timezone, r1, r2))

\* get_games from `params = {...}` on
GetGamesWith(a, params, r1, r2) ==
    Once(_request("GET", "/games", params, r1),
         LAMBDA first : AfterFirst(a, params, first, r1, r2))

\* get_games(**a) when the server answers r1, and r2 to the retry:
\* the requests sent, the responses read, and how the call ends
GetGames(a, r1, r2) ==
    IF GamesArgsInvalid(a)
    THEN [reqs |-> << >>, resps |-> << >>, out |-> ValueError]
    ELSE Once(GamesParams(a), LAMBDA params : GetGamesWith(a, params, r1, r2))

\* the responses that matter to GetGames(a, r1, _)
RetriesFor(a, r1) ==
    IF Len(GetGames(a, r1, r1).resps) = 2 THEN RetryResponses ELSE {r1}

get_games ==
    /\ call = NoCall
    /\ \E game_date \in GameDates, timezone \in Timezones,
          start_date \in {PyNone, PyInt(1710000000)},
          end_date \in {PyNone, PyDate(Mar10 + 1)},
          o \in OtherGamesArgs, r1 \in Responses :
          \E a \in {GamesArgs(game_date, timezone, start_date, end_date, o)} :
            \E r2 \in RetriesFor(a, r1) :
              \E g \in {GetGames(a, r1, r2)} :
                call' = CallOf("get_games", a, g)
    /\ UNCHANGED <<client, gen>>

(***************************************************************************)
(* Generators: _iter_items (iter_predictions, iter_teams, iter_markets) and *)
(* iter_games.  A generator runs from one of its steps to the next when its *)
(* consumer asks for the next element.                                      *)
(*   pc = "start"    created, body not yet entered                          *)
(*   pc = "request"  at the top of the while loop                           *)
(*   pc = "yield"    in the for loop, idx the next element of `items`       *)
(*   pc = "done"     returned;  pc = "error"  raised `out`                  *)
(* emitted, reqs and resps are the history of the current page: what was    *)
(* yielded from it and the requests and responses that fetched it; npages   *)
(* counts the pages fetched, up to MaxLog.                                  *)
(***************************************************************************)
Iters == {1, 2}
\* the generators a behaviour advances
Driven == {1}

NoGen ==
    [op |-> "none", path |-> "", args |-> NoParams, base_params |-> NoParams,
     page_limit |-> PyNone, cursor |-> PyNone, pc |-> "none",
     next_cursor |-> PyNone, items |-> NoItems, page_cursor |-> Absent,
     idx |-> 0, emitted |-> << >>, reqs |-> << >>, resps |-> << >>,
     npages |-> 0, out |-> NoOutcome]

\* the pages, and the failures, the server may answer to a page request
PageItems ==
    {NoItems, ItemsNotList, ItemList(<< >>), ItemList(<<ItemDict("id", 1)>>),
     ItemList(<<ItemInt(5), ItemDict("value", 5), ItemNull>>)}
PageCursors == {Absent, PyNone, PyStr(<< >>), PyStr(SC1), PyStr(SC2)}

PageResponses ==
    {Response(200, DictBody(Absent, Absent, it, c)) : it \in PageItems, c \in PageCursors}
        \cup {Response(200, TextBody(SPlain)), Response(200, JsonBody),
              Response(400, DictBody(PyStr(SNeedUpper), Absent, NoItems, Absent)),
              Response(400, DictBody(Absent, PyStr(SNotFound),
                                     ItemList(<<ItemDict("id", 1)>>), PyStr(SC1))),
              Response(500, TextBody(SPlain))}

\* the generator object a call of an iter_* method returns
NewGen(op, path, args, base_params, page_limit, cursor) ==
    [NoGen EXCEPT !.op = op, !.path = path, !.args = args,
                  !.base_params = base_params, !.page_limit = page_limit,
                  !.cursor = cursor, !.pc = "start"]

Create(i, g) ==
    /\ call = NoCall
    /\ gen[i].op = "none"
    /\ gen' = [gen EXCEPT ![i] = g]
    /\ UNCHANGED <<client, call>>

PageLimits == {PyInt(500), PyInt(2)}
StartCursors == {PyNone, PyStr(<< >>), PyStr(SC2)}

iter_predictions(i) ==
    \E time \in {PyInt(1710000000), PyDateTime(1710113400)},
       tag \in {PyNone, PyList(<<SNba, SBlank>>)},
       page_limit \in {PyInt(500)}, cursor \in {PyNone, PyStr(SC2)} :
        LET args == [time |-> time, slug |-> PyNone, condition_id |-> PyNone,
                     team_id |-> PyNone, tag |-> tag, tags_mode |-> PyNone]
            params == [time |-> _unixish(time), slug |-> args.slug,
                       condition_id |-> args.condition_id,
                       team_id |-> StrOrNone(args.team_id),
                       tag |-> _csv(tag), tags_mode |-> args.tags_mode]
        IN  Create(i, NewGen("iter_predictions", "/predictions", args, params,
                             page_limit, cursor))

\* iter_teams(league="nba", page_limit=..., cursor=...)
IterTeamsWith(i, page_limits, cursors) ==
    \E page_limit \in page_limits, cursor \in cursors :
        LET params == [league |-> PyStr(SNba)]
        IN  Create(i, NewGen("iter_teams", "/teams", params, params, page_limit, cursor))

iter_teams(i) == IterTeamsWith(i, PageLimits, StartCursors)

iter_markets(i) ==
    \E source \in {PyNone, PyStr(SAll)}, q \in {PyNone, PyStr(<< >>)},
       page_limit \in {PyInt(500)}, cursor \in {PyNone} :
        LET params == [source |-> source, status |-> PyNone, q |-> q,
                       search |-> PyNone]
        IN  Create(i, NewGen("iter_markets", "/markets", params, params,
                             page_limit, cursor))

\* iter_games is itself the generator: nothing runs until the first element is asked for
IterGamesWith(i, game_dates, timezones, start_dates, end_dates) ==
    \E game_date \in game_dates,
       timezone \in timezones,
       start_date \in start_dates,
       end_date \in end_dates,
       page_limit \in {PyInt(500)}, cursor \in {PyNone} :
        LET args == GamesArgs(game_date, timezone, start_date, end_date,
                              [team_ids |-> PyNone, limit |-> page_limit,
                               min_volume |-> PyNone, cursor |-> cursor])
        IN  Create(i, NewGen("iter_games", "/games", args, NoParams, page_limit, cursor))

iter_games(i) ==
    IterGamesWith(i, {PyNone, PyDate(Nov03), PyStr(STomorrow)},
                  {PyNone, PyStr(TzNewYork)},
                  {PyNone, PyInt(1710000000)}, {PyNone, PyDate(Mar10 + 1)})

\* the first entry into the body: iter_games checks its arguments;
\* next_cursor = cursor
IterStart(i) ==
    /\ gen[i].pc = "start"
    /\ IF gen[i].op = "iter_games" /\ GamesArgsInvalid(gen[i].args)
       THEN gen' = [gen EXCEPT ![i].pc = "error", ![i].out = ValueError]
       ELSE gen' = [gen EXCEPT ![i].pc = "request", ![i].next_cursor = gen[i].cursor]
    /\ UNCHANGED <<client, call>>

\* the parameters that ask for the first page again, whatever the cursor
PageParamsFirstPage(base_params, page_limit, next_cursor) ==
    [k \in DOMAIN base_params \cup {"limit", "cursor"} |->
        IF k = "limit" THEN page_limit
        ELSE IF k = "cursor" THEN PyNone
        ELSE base_params[k]]

\* params = dict(base_params); params["limit"] = page_limit; params["cursor"] = next_cursor
PageParams(base_params, page_limit, next_cursor) ==
    [k \in DOMAIN base_params \cup {"limit", "cursor"} |->
        IF k = "limit" THEN page_limit
        ELSE IF k = "cursor" THEN next_cursor
        ELSE base_params[k]]

\* the requests, responses and outcome of fetching one page
FetchPage(g, r1, r2) ==
    IF g.op = "iter_games"
    THEN Once([g.args EXCEPT !.limit = g.page_limit, !.cursor = g.next_cursor],
              LAMBDA a : GetGames(a, r1, r2))
    ELSE Once(_request("GET", g.path,
                       PageParams(g.base_params, g.page_limit, g.next_cursor), r1),
              LAMBDA r : OneRequest(r, r1))

\* payload.get("items") and payload.get("next_cursor") of what _request returned:
\* a payload that is no JSON object comes back as {"ok": True, "raw": payload}
ReturnedItems(out) == IF out.wrapped THEN NoItems ELSE out.payload.items
ReturnedCursor(out) == IF out.wrapped THEN Absent ELSE out.payload.next_cursor

\* where the generator goes with what the fetch ended in: it raises, it returns
\* because `items` is no list, or it enters the for loop
Landed(fetched, out) ==
    IF out.kind # "return" THEN [fetched EXCEPT !.pc = "error", !.out = out]
    ELSE IF ReturnedItems(out).t # "list" THEN [fetched EXCEPT !.pc = "done"]
    ELSE [fetched EXCEPT !.pc = "yield", !.idx = 1, !.items = ReturnedItems(out),
                         !.page_cursor = ReturnedCursor(out)]

\* generator g after the page fetch f
AfterFetch(g, f) ==
    Once([g EXCEPT !.reqs = f.reqs, !.resps = f.resps,
                   !.npages = Min(@ + 1, MaxLog), !.emitted = << >>, !.idx = 0,
                   !.items = NoItems, !.page_cursor = Absent],
         LAMBDA fetched : Landed(fetched, f.out))

\* the responses that matter to FetchPage(g, r1, _)
PageRetriesFor(g, r1) ==
    IF \E f \in {FetchPage(g, r1, r1)} : Len(f.resps) = 2 THEN RetryResponses ELSE {r1}

\* one request for a page (two when get_games falls back), up to
\* `for item in items`, the server answering from `responses`
IterRequestFrom(i, responses) ==
    /\ gen[i].pc = "request"
    /\ \E r1 \in responses :
        \E r2 \in PageRetriesFor(gen[i], r1) :
          \E f \in {FetchPage(gen[i], r1, r2)} :
            gen' = [gen EXCEPT ![i] = AfterFetch(gen[i], f)]
    /\ UNCHANGED <<client, call>>

IterRequest(i) == IterRequestFrom(i, PageResponses)

\* the element that drops what is not a mapping
YieldedSkipping(item) ==
    IF item.m = "dict" THEN <<item>> ELSE << >>

\* what the for loop yields for an item: the item, or {"value": item}
Yielded(item) ==
    IF item.m = "dict" THEN <<item>>
    ELSE <<[m |-> "dict", key |-> "value", of |-> item.m, val |-> item.val]>>

IterYield(i) ==
    /\ gen[i].pc = "yield"
    /\ gen[i].idx <= Len(gen[i].items.l)
    /\ gen' = [gen EXCEPT ![i].emitted = @ \o Yielded(gen[i].items.l[gen[i].idx]),
                          ![i].idx = @ + 1]
    /\ UNCHANGED <<client, call>>

\* the test that lets an empty cursor through
CursorEndsIterationLax(next_cursor) == next_cursor.t = "none"

\* the test that knows the empty cursor only
CursorEndsIterationOnEmpty(next_cursor) == next_cursor = PyStr(<< >>)

\* `not next_cursor`
CursorEndsIteration(next_cursor) == ~Truthy(next_cursor)

\* the page end that keeps next_cursor in one place for every generator
IterPageEndShared(i) ==
    /\ gen[i].pc = "yield"
    /\ gen[i].idx > Len(gen[i].items.l)
    /\ gen' = [j \in Iters |->
                IF j = i
                THEN [gen[i] EXCEPT !.next_cursor = DictGet(gen[i].page_cursor),
                                    !.pc = IF CursorEndsIteration(DictGet(gen[i].page_cursor))
                                           THEN "done" ELSE "request"]
                ELSE [gen[j] EXCEPT !.next_cursor = DictGet(gen[i].page_cursor)]]
    /\ UNCHANGED <<client, call>>

\* after the for loop: next_cursor = payload.get("next_cursor"); return unless it is set
IterPageEnd(i) ==
    /\ gen[i].pc = "yield"
    /\ gen[i].idx > Len(gen[i].items.l)
    /\ gen' = [gen EXCEPT ![i].next_cursor = DictGet(gen[i].page_cursor),
                          ![i].pc = IF CursorEndsIteration(DictGet(gen[i].page_cursor))
                                    THEN "done" ELSE "request"]
    /\ UNCHANGED <<client, call>>

(***************************************************************************)
(* The specifications.                                                      *)
(***************************************************************************)
Init ==
    /\ client = NewClient(<<"k">>, <<"h", "/">>)
    /\ call = NoCall
    /\ gen = [i \in Iters |-> NoGen]

\* no generator exists: a call that returns a value is observed alone
NoGenerators == \A i \in Iters : gen[i].op = "none"

Calls ==
    /\ NoGenerators
    /\ \/ auth_check
       \/ get_predictions
       \/ get_predictions_history
       \/ get_price_history
       \/ get_game
       \/ get_teams
       \/ get_team
       \/ get_markets
       \/ get_market
       \/ get_games

Generators ==
    \E i \in Driven :
        \/ iter_predictions(i)
        \/ iter_teams(i)
        \/ iter_markets(i)
        \/ iter_games(i)
        \/ IterStart(i)
        \/ IterRequest(i)
        \/ IterYield(i)
        \/ IterPageEnd(i)

Next == Calls \/ Generators

Spec == Init /\ [][Next]_vars

\* the consumer of a generator keeps asking for the next element
Advance(i) == IterStart(i) \/ IterRequest(i) \/ IterYield(i) \/ IterPageEnd(i)

\* a generator and a consumer that does not stop
LiveSpec == Init /\ [][Generators]_vars /\ \A i \in Driven : WF_vars(Advance(i))

\* the answers of the server to the page requests of two sequences
PairResponses ==
    {Response(200, DictBody(Absent, Absent, it, c)) :
        it \in {ItemsNotList, ItemList(<<ItemInt(5), ItemDict("id", 1)>>)},
        c \in {Absent, PyStr(SC1), PyStr(SC2)}}
        \cup {Response(400, DictBody(PyStr(SNeedUpper), Absent, NoItems, Absent)),
              Response(500, TextBody(SPlain))}

\* two sequences made from one client, advanced one step at a time in any order
PairNext ==
    \E i \in Iters :
        \/ IterTeamsWith(i, {PyInt(2)}, {PyStr(SC2)})
        \/ IterGamesWith(i, {PyDate(Nov03)}, {PyStr(TzNewYork)}, {PyNone}, {PyNone})
        \/ IterStart(i)
        \/ IterRequestFrom(i, PairResponses)
        \/ IterYield(i)
        \/ IterPageEnd(i)

PairSpec == Init /\ [][PairNext]_vars

(***************************************************************************)
(* What the properties speak about.                                         *)
(***************************************************************************)
\* the call of the behaviour and the page fetches of its generators, each
\* with its requests, its responses and its outcome
Observed ==
    (IF call.op = "none" THEN {}
     ELSE {[op |-> call.op, args |-> call.args, reqs |-> call.reqs,
            resps |-> call.resps, out |-> call.out]})
    \cup {[op |-> gen[i].op, args |-> gen[i].args, reqs |-> gen[i].reqs,
           resps |-> gen[i].resps, out |-> gen[i].out] :
            i \in {j \in Iters : gen[j].op # "none"}}

\* every request transmitted
Transmitted == UNION {{o.reqs[k] : k \in 1..Len(o.reqs)} : o \in Observed}

\* the errors raised from a response, with that response
RaisedErrors ==
    {[resp |-> o.resps[Len(o.resps)], out |-> o.out] :
        o \in {x \in Observed : x.out.kind = "APIError"}}

Supplied(v) == v.t # "none"

(***************************************************************************)
(* C8  The error raised from a JSON-object body.                            *)
(***************************************************************************)
\* a field of the body that is present
Present(v) == v.t # "absent"

\* C8 as stated: an error raised from a response whose body is a JSON object
\* carries the status code, the parsed body as payload, and as message the
\* `error` field if present, else the `message` field if present, else the
\* reason phrase.
C8_ErrorFromPresentField ==
    \A e \in RaisedErrors :
        e.resp.body.kind = "dict" =>
            /\ e.out.status_code = e.resp.status
            /\ e.out.payload = e.resp.body
            /\ e.out.message =
                 (IF Present(e.resp.body.error) THEN ToStr(e.resp.body.error)
                  ELSE IF Present(e.resp.body.message) THEN ToStr(e.resp.body.message)
                  ELSE e.resp.reason)

\* a field of the body that is present and neither null, empty nor zero
NonEmpty(v) ==
    \/ v.t = "str" /\ Len(v.s) > 0
    \/ v.t = "int" /\ v.n # 0

\* C8 amended: an error raised from a response whose body is a JSON object
\* carries the status code, the parsed body as payload, and as message the
\* text of the `error` field if it is present and not empty (not null, "" or 0),
\* else of the `message` field if it is present and not empty, else the reason
\* phrase.
C8_ErrorFromNonEmptyField ==
    \A e \in RaisedErrors :
        e.resp.body.kind = "dict" =>
            /\ e.out.status_code = e.resp.status
            /\ e.out.payload = e.resp.body
            /\ e.out.message =
                 (IF NonEmpty(e.resp.body.error) THEN ToStr(e.resp.body.error)
                  ELSE IF NonEmpty(e.resp.body.message) THEN ToStr(e.resp.body.message)
                  ELSE e.resp.reason)

\* an error raised from {"error": "bad key", "message": "not found"}
C8_Witness ==
    \E e \in RaisedErrors :
        /\ e.resp.body.kind = "dict"
        /\ e.resp.body.error = PyStr(SBadKey)
        /\ e.resp.body.message = PyStr(SNotFound)
        /\ e.out.message = SBadKey

(***************************************************************************)
(* C9  The error raised from a body that is not JSON.                       *)
(***************************************************************************)
\* C9: an error raised from a response whose body is not JSON has the whole
\* body text as payload, and as message the first 200 characters of the body,
\* or the reason phrase when the body is empty or only whitespace.
C9_ErrorFromTextBody ==
    \A e \in RaisedErrors :
        e.resp.body.kind = "text" =>
            LET text == e.resp.body.text
                message == e.out.message
            IN  /\ e.out.status_code = e.resp.status
                /\ e.out.payload.kind = "str"
                /\ e.out.payload.text = text
                /\ IF \A k \in 1..Len(text) : text[k] \in {" ", "\t", "\n"}
                   THEN message = e.resp.reason
                   ELSE /\ Len(message) = (IF Len(text) > 200 THEN 200 ELSE Len(text))
                        /\ \A k \in 1..Len(message) : message[k] = text[k]

\* an error raised from a body of more than 200 characters
C9_Witness ==
    \E e \in RaisedErrors :
        /\ e.resp.body.kind = "text"
        /\ Len(e.resp.body.text) > 200
        /\ Len(e.out.message) = 200
        /\ Len(e.out.payload.text) > 200

(***************************************************************************)
(* C6  Parameters without a value are not transmitted.                      *)
(***************************************************************************)
\* C6: every transmitted request carries exactly the entries of the
\* operation's parameter mapping whose value is not None, unchanged; so the
\* first page of a pagination started without a cursor carries no cursor, and
\* the fallback retry of get_games carries neither game_date nor timezone.
C6_AbsentParamsOmitted ==
    /\ \A r \in Transmitted :
          /\ DOMAIN r.sent = {k \in DOMAIN r.params : r.params[k] # PyNone}
          /\ \A k \in DOMAIN r.sent : r.sent[k] = r.params[k] /\ r.sent[k] # PyNone
    /\ \A i \in Iters :
          (gen[i].npages = 1 /\ gen[i].cursor = PyNone) =>
              \A k \in 1..Len(gen[i].reqs) : "cursor" \notin DOMAIN gen[i].reqs[k].sent
    /\ \A o \in Observed :
          Len(o.reqs) = 2 =>
              /\ DOMAIN o.reqs[2].sent \cap {"game_date", "timezone"} = {}
              /\ {"start_date", "end_date"} \subseteq DOMAIN o.reqs[2].sent

\* a request that dropped a None and kept a zero and an empty string
C6_Witness ==
    \E r \in Transmitted :
        /\ \E k \in DOMAIN r.params : r.params[k] = PyNone
        /\ \E k \in DOMAIN r.sent : r.sent[k] = PyInt(0)
        /\ \E k \in DOMAIN r.sent : r.sent[k] = PyStr(<< >>)

(***************************************************************************)
(* C4  Arguments are checked before anything is sent.                       *)
(***************************************************************************)
\* the calls C4 lists: the required alternative is missing
MissingRequired(o) ==
    CASE o.op \in {"get_games", "iter_games"} ->
            /\ ~Supplied(o.args.game_date)
            /\ ~(Supplied(o.args.start_date) /\ Supplied(o.args.end_date))
      [] o.op = "get_game" ->
            /\ ~Supplied(o.args.condition_id)
            /\ ~(/\ Supplied(o.args.league) /\ Supplied(o.args.game_date)
                 /\ Supplied(o.args.team_a_id) /\ Supplied(o.args.team_b_id))
      [] o.op = "get_team" ->
            /\ ~Supplied(o.args.team_id)
            /\ ~Supplied(o.args.name)
            /\ ~Supplied(o.args.abbreviation)
      [] o.op = "get_market" ->
            /\ ~Supplied(o.args.condition_id) /\ ~Supplied(o.args.slug)
            /\ ~Supplied(o.args.ticker) /\ ~Supplied(o.args.polymarket_id)
      [] o.op \in {"get_predictions_history", "get_price_history"} ->
            o.args.condition_id \in {PyNone, PyStr(<< >>)}
      [] OTHER -> FALSE

\* C4: a call whose required alternative is missing ends in ValueError with no
\* request sent (iter_games: when its first element is asked for).
C4_ValidationBeforeRequest ==
    /\ call.op # "none" /\ MissingRequired(call) =>
          call.out.kind = "ValueError" /\ call.reqs = << >> /\ call.resps = << >>
    /\ \A i \in Iters :
          gen[i].op # "none" /\ MissingRequired(gen[i]) =>
              /\ gen[i].pc \in {"start", "error"}
              /\ gen[i].pc = "error" => gen[i].out.kind = "ValueError"
              /\ gen[i].reqs = << >> /\ gen[i].npages = 0

\* get_games with start_date but no end_date and no game_date was rejected,
\* or iter_games with the same arguments was
C4_Witness ==
    \/ /\ call.op = "get_games"
       /\ Supplied(call.args.start_date) /\ ~Supplied(call.args.end_date)
       /\ ~Supplied(call.args.game_date)
       /\ call.out.kind = "ValueError" /\ call.reqs = << >>
    \/ /\ gen[1].op = "iter_games"
       /\ Supplied(gen[1].args.start_date) /\ ~Supplied(gen[1].args.end_date)
       /\ ~Supplied(gen[1].args.game_date)
       /\ gen[1].pc = "error" /\ gen[1].out.kind = "ValueError"

(***************************************************************************)
(* C2  The day-range fallback of get_games.                                 *)
(***************************************************************************)
\* the calendar day a game_date stands for (a date, a datetime, or a string
\* that begins, once trimmed, with YYYY-MM-DD), as a day number; -1 if none
DenotedDay(game_date) ==
    CASE game_date.t = "date" -> game_date.n
      [] game_date.t = "datetime" -> game_date.n \div 86400
      [] game_date = PyStr(SIsoZ) -> 19792
      [] game_date = PyStr(SPadded) -> 20030
      [] OTHER -> 0 - 1

\* the calendar day of an instant in a zone
LocalDay(zone, t) == (t + UtcOffsetAt(zone, t)) \div 86400

\* start and end are the first and the last second of the day in the zone
IsDayBounds(zone, day, start, end) ==
    /\ start <= end
    /\ LocalDay(zone, start) = day /\ LocalDay(zone, start - 1) = day - 1
    /\ LocalDay(zone, end) = day /\ LocalDay(zone, end + 1) = day + 1

\* a get_games call by day whose first response is the 400 that asks for
\* start_date and end_date
DayCallRejected ==
    /\ call.op = "get_games"
    /\ Supplied(call.args.game_date)
    /\ ~Supplied(call.args.start_date) /\ ~Supplied(call.args.end_date)
    /\ Len(call.resps) >= 1
    /\ call.resps[1].status = 400
    /\ Contains(MessageOf(call.resps[1]), FallbackNeedle)

\* the retry is the first request with the day replaced by its bounds in `zone`
RetrySubstitutes(zone, day) ==
    /\ Len(call.reqs) = 2
    /\ call.reqs[2].method = "GET" /\ call.reqs[2].path = "/games"
    /\ DOMAIN call.reqs[2].sent \cap {"game_date", "timezone"} = {}
    /\ {"start_date", "end_date"} \subseteq DOMAIN call.reqs[2].sent
    /\ call.reqs[2].sent.start_date.t = "int" /\ call.reqs[2].sent.end_date.t = "int"
    /\ IsDayBounds(zone, day, call.reqs[2].sent.start_date.n,
                   call.reqs[2].sent.end_date.n)
    /\ \A k \in {"league", "team_ids", "limit", "min_volume", "cursor"} :
          /\ k \in DOMAIN call.reqs[2].sent <=> k \in DOMAIN call.reqs[1].sent
          /\ k \in DOMAIN call.reqs[2].sent => call.reqs[2].sent[k] = call.reqs[1].sent[k]
    /\ IF call.resps[2].status >= 400
       THEN call.out.kind = "APIError" /\ call.out.status_code = call.resps[2].status
       ELSE call.out.kind = "return"
            /\ call.out.payload = (IF call.resps[2].body.kind = "text"
                                   THEN PayloadOf(call.resps[2].body)
                                   ELSE call.resps[2].body)

GamesOps == {"get_games", "iter_games"}

\* the parts of C3, with `matches` telling whether the message of the first
\* response has the substring
ErrorsPropagate(o, matches) ==
    IF o.op \notin GamesOps
    THEN /\ Len(o.reqs) <= 1
         /\ Len(o.resps) = 1 /\ o.resps[1].status >= 400 =>
                o.out.kind = "APIError" /\ o.out.status_code = o.resps[1].status
    ELSE /\ Len(o.reqs) <= 2
         /\ Len(o.resps) = 2 /\ o.resps[2].status >= 400 =>
                o.out.kind = "APIError" /\ o.out.status_code = o.resps[2].status
         /\ (/\ Len(o.resps) >= 1
             /\ o.resps[1].status >= 400
             /\ \/ Supplied(o.args.start_date)
                \/ Supplied(o.args.end_date)
                \/ o.resps[1].status # 400
                \/ ~matches) =>
                /\ Len(o.reqs) = 1
                /\ o.out.kind = "APIError" /\ o.out.status_code = o.resps[1].status

\* C3 as stated: a response with status >= 400 raises the API error and nothing
\* is asked again, except that get_games asks once more; a get_games error
\* whose message lacks the substring "start_date and end_date" propagates after
\* one request.
C3_RetryOnlyOnExactSubstring ==
    \A o \in Observed :
        ErrorsPropagate(o, Len(o.resps) >= 1
                            /\ Contains(MessageOf(o.resps[1]), FallbackNeedle))

\* C3 amended: the same, where the message lacks the substring in whatever
\* letter case (the message is compared in lower case).
C3_RetryOnlyOnSubstringAnyCase ==
    \A o \in Observed :
        ErrorsPropagate(o, Len(o.resps) >= 1
                            /\ Contains(StrLower(MessageOf(o.resps[1])), FallbackNeedle))

\* the retry failed and its error reached the caller
C3_Witness ==
    /\ call.op = "get_games"
    /\ Len(call.reqs) = 2
    /\ call.resps[2].status >= 400
    /\ call.out.kind = "APIError"

(***************************************************************************)
(* C5  The day and the range of a games query.                              *)
(***************************************************************************)
CarriesDay(r) == "game_date" \in DOMAIN r.sent
CarriesRangePart(r) == DOMAIN r.sent \cap {"start_date", "end_date"} # {}
CarriesRange(r) == {"start_date", "end_date"} \subseteq DOMAIN r.sent

\* C5 as stated: a games call that supplies game_date together with start_date
\* or end_date is rejected with nothing sent, and no /games request carries
\* game_date together with start_date or end_date.
C5_DayAndRangeExclusive ==
    /\ \A o \in Observed :
          (/\ o.op \in GamesOps
           /\ Supplied(o.args.game_date)
           /\ Supplied(o.args.start_date) \/ Supplied(o.args.end_date)) =>
              o.reqs = << >>
    /\ \A r \in Transmitted :
          r.path = "/games" => ~(CarriesDay(r) /\ CarriesRangePart(r))

\* C5 amended: validation requires game_date or both start_date and end_date,
\* before the request is sent: every /games request carries game_date or both
\* bounds.  The two are not exclusive: a call that supplies game_date together
\* with start_date or end_date is sent as given, in one request.
C5_DayOrRangeRequired ==
    /\ \A r \in Transmitted :
          r.path = "/games" => CarriesDay(r) \/ CarriesRange(r)
    /\ \A o \in Observed :
          (/\ o.op \in GamesOps
           /\ Len(o.reqs) >= 1
           /\ Supplied(o.args.game_date)
           /\ Supplied(o.args.start_date) \/ Supplied(o.args.end_date)) =>
              /\ Len(o.reqs) = 1
              /\ CarriesDay(o.reqs[1])
              /\ Supplied(o.args.start_date) <=> "start_date" \in DOMAIN o.reqs[1].sent
              /\ Supplied(o.args.end_date) <=> "end_date" \in DOMAIN o.reqs[1].sent

\* a request that carries the day and the whole range
C5_Witness ==
    /\ call.op = "get_games"
    /\ Len(call.reqs) = 1
    /\ CarriesDay(call.reqs[1]) /\ CarriesRange(call.reqs[1])

(***************************************************************************)
(* C1  The cursor decides whether pagination goes on.                       *)
(***************************************************************************)
\* next_cursor is present and not empty
HasCursor(c) == c.t = "str" /\ Len(c.s) > 0

\* C1: when the for loop over a page is left, every item of the page has been
\* yielded; the generator then asks for a further page if the page's
\* next_cursor is present and not empty, and otherwise has ended; a generator
\* at the top of its loop sends a request when it is advanced, and one that has
\* ended sends nothing more.
C1_CursorDecidesContinuation ==
    [][\A i \in Iters :
        /\ (gen[i].pc = "yield" /\ gen'[i].pc # "yield") =>
              /\ Len(gen[i].emitted) = Len(gen[i].items.l)
              /\ gen'[i].emitted = gen[i].emitted
              /\ gen'[i].reqs = gen[i].reqs
              /\ IF HasCursor(gen[i].page_cursor)
                 THEN gen'[i].pc = "request"
                 ELSE gen'[i].pc = "done"
        /\ (gen[i].pc = "request" /\ gen'[i] # gen[i]) =>
              /\ Len(gen'[i].reqs) >= 1
              /\ gen'[i].npages >= 1
        /\ gen[i].pc = "done" => gen'[i] = gen[i]
      ]_vars

\* the iteration went on after one page and ended after a later one, whose
\* items it yielded
C1_Witness ==
    /\ gen[1].pc = "done"
    /\ gen[1].npages >= 2
    /\ ~HasCursor(gen[1].page_cursor)
    /\ Len(gen[1].items.l) > 0
    /\ Len(gen[1].emitted) = Len(gen[1].items.l)

(***************************************************************************)
(* C7  What a page yields.                                                  *)
(***************************************************************************)
\* the element for an item of a page: a mapping as it is, anything else as
\* {"value": item}
ElementFor(item) ==
    IF item.m = "dict" THEN item
    ELSE [m |-> "dict", key |-> "value", of |-> item.m, val |-> item.val]

\* C7: the elements yielded from a page are, in order, one per item of the
\* `items` list the response carried, a mapping as itself and anything else as
\* {"value": item}; every item has been yielded when the page is left; and the
\* yielded sequence grows by one element at a time, by the next item of the page.
C7_OneElementPerItem ==
    /\ [](\A i \in Iters :
            /\ Len(gen[i].emitted) <= Len(gen[i].items.l)
            /\ \A k \in 1..Len(gen[i].emitted) :
                  gen[i].emitted[k] = ElementFor(gen[i].items.l[k])
            /\ gen[i].pc = "yield" =>
                  /\ Len(gen[i].emitted) = gen[i].idx - 1
                  /\ gen[i].items = gen[i].resps[Len(gen[i].resps)].body.items
            /\ gen[i].pc \in {"request", "done"} =>
                  Len(gen[i].emitted) = Len(gen[i].items.l))
    /\ [][\A i \in Iters :
            gen'[i].emitted # gen[i].emitted =>
                \/ gen[i].pc = "request" /\ gen'[i].emitted = << >>
                \/ /\ gen'[i].items = gen[i].items
                   /\ gen'[i].emitted =
                        Append(gen[i].emitted,
                               ElementFor(gen[i].items.l[Len(gen[i].emitted) + 1]))
       ]_vars

\* a page of three items was yielded: a number wrapped, a mapping, a null wrapped
C7_Witness ==
    /\ Len(gen[1].emitted) = 3
    /\ gen[1].items.l[1].m = "int" /\ gen[1].emitted[1].key = "value"
    /\ gen[1].emitted[2] = gen[1].items.l[2]
    /\ gen[1].emitted[3].of = "none"

(***************************************************************************)
(* C10  Whether pagination ends.                                            *)
(***************************************************************************)
Ended(i) == gen[i].pc \in {"done", "error"}

\* C10 as stated: whatever the server does, a generator whose consumer keeps
\* asking reaches its end or an error.
C10_AlwaysEnds == (gen[1].pc = "start") ~> Ended(1)

\* a page with a next_cursor that is present and not empty has just arrived
CursorPageArrived(i) ==
    gen[i].pc = "yield" /\ gen[i].idx = 1 /\ HasCursor(gen[i].page_cursor)

\* C10 amended: a generator whose consumer keeps asking reaches its end or an
\* error unless the server goes on for ever sending pages whose next_cursor is
\* present and not empty.
C10_EndsUnlessCursorForEver ==
    []<>(gen[1].op = "none" \/ Ended(1) \/ CursorPageArrived(1))

\* the iteration ended after more than one page
C10_Witness == gen[1].pc = "done" /\ gen[1].npages >= 2 /\ gen[1].reqs # << >>

(***************************************************************************)
(* C11  What _request returns.                                              *)
(***************************************************************************)
\* the calls that returned a value, each with the response it returned from
ReturnedCalls ==
    {[resp |-> o.resps[Len(o.resps)], out |-> o.out] :
        o \in {x \in Observed : x.out.kind = "return"}}

FetchStep(i) == gen[i].pc = "request" /\ gen'[i] # gen[i]

\* the cursor the next page is to be asked with: the one the caller gave
\* before the first page, the next_cursor of the last response after it
CursorAtHand(g) ==
    IF g.npages = 0 THEN g.cursor
    ELSE LET body == g.resps[Len(g.resps)].body
         IN  IF body.next_cursor.t = "absent" THEN PyNone ELSE body.next_cursor

\* request rq carries cursor c (no cursor at all when c is None), the page
\* limit and the base parameters of generator g
Carries(rq, g, c) ==
    /\ rq.params.cursor = c
    /\ IF c.t = "none" THEN "cursor" \notin DOMAIN rq.sent
       ELSE "cursor" \in DOMAIN rq.sent /\ rq.sent.cursor = c
    /\ "limit" \in DOMAIN rq.sent /\ rq.sent.limit = g.page_limit
    /\ \A k \in DOMAIN g.base_params : rq.params[k] = g.base_params[k]

\* requests p and q differ in the cursor at most
SameButCursor(p, q) ==
    /\ p.method = q.method
    /\ p.path = q.path
    /\ [p.params EXCEPT !.cursor = PyNone] = [q.params EXCEPT !.cursor = PyNone]

\* the response the page fetch ended on is a page with a list of items
ListPage(resp) == resp.body.kind = "dict" /\ resp.body.items.t = "list"

\* C12: the requests of a page fetch carry the caller's starting cursor on the
\* first page (none when none was given) and the next_cursor of the preceding
\* page's response on a later page, with limit = page_limit and the base
\* parameters; the requests of a later page differ from those of the page
\* before in the cursor only; a later page is fetched only when every item of
\* the page before has been yielded; and a page without a list of items ends
\* the iteration with nothing yielded from it and nothing requested after it,
\* whatever next_cursor it carries.
C12_PageRequestsFollowCursor ==
    [][\A i \in Iters :
        /\ FetchStep(i) =>
              /\ Len(gen'[i].reqs) >= 1
              /\ \A k \in 1..Len(gen'[i].reqs) :
                    Carries(gen'[i].reqs[k], gen[i], CursorAtHand(gen[i]))
              /\ gen[i].npages >= 1 =>
                    /\ Len(gen[i].emitted) = Len(gen[i].items.l)
                    /\ \A k \in 1..Min(Len(gen[i].reqs), Len(gen'[i].reqs)) :
                          SameButCursor(gen[i].reqs[k], gen'[i].reqs[k])
              /\ LET last == gen'[i].resps[Len(gen'[i].resps)]
                 IN  (last.status < 400 /\ ~ListPage(last)) =>
                        /\ gen'[i].pc = "done"
                        /\ gen'[i].emitted = << >>
        /\ ~FetchStep(i) => gen'[i].reqs = gen[i].reqs
        /\ gen[i].pc = "done" => gen'[i] = gen[i]
      ]_vars

\* a generator started without a cursor has asked for a later page with the
\* cursor the page before returned
C12_Witness ==
    /\ gen[1].npages >= 2
    /\ gen[1].cursor = PyNone
    /\ gen[1].pc = "yield"
    /\ gen[1].reqs[1].sent.cursor = PyStr(SC1)
    /\ gen[1].reqs[1].sent.limit = gen[1].page_limit

(***************************************************************************)
(* C13  Sequences made from one client.                                     *)
(***************************************************************************)
\* the body of the page generator i is in
OwnPage(i) == gen[i].resps[Len(gen[i].resps)].body

\* C13: of two sequences made from one client and advanced in any order, a
\* step of one leaves the other as it is, its cursor included; the requests of
\* a sequence go to its own path with its own parameters and with the cursor
\* it was started with or the next_cursor of its own last response; what a
\* sequence has yielded from a page are the leading items of the page it
\* received itself, in order; and the client's configuration stays what the
\* constructor made it.
C13_SequencesDoNotInterfere ==
    /\ [](client = NewClient(<<"k">>, <<"h", "/">>))
    /\ [](\A i \in Iters :
            gen[i].pc = "yield" =>
                /\ gen[i].idx - 1 <= Len(OwnPage(i).items.l)
                /\ gen[i].emitted =
                      [k \in 1..(gen[i].idx - 1) |-> ElementFor(OwnPage(i).items.l[k])])
    /\ [][\A i \in Iters :
            /\ gen'[i] # gen[i] => \A j \in Iters \ {i} : gen'[j] = gen[j]
            /\ FetchStep(i) =>
                  \A k \in 1..Len(gen'[i].reqs) :
                      /\ gen'[i].reqs[k].path = gen[i].path
                      /\ Carries(gen'[i].reqs[k], gen[i], CursorAtHand(gen[i]))
            /\ gen'[i].pc = "done" =>
                  \/ gen[i].pc = "done"
                  \/ gen[i].pc = "request" /\ gen'[i].emitted = << >>
                  \/ gen[i].pc = "yield" /\ Len(gen[i].emitted) = Len(OwnPage(i).items.l)
       ]_vars

\* two sequences on different paths are each in a later page of their own,
\* asked for with different cursors
C13_Witness ==
    /\ gen[1].pc = "yield" /\ gen[2].pc = "yield"
    /\ gen[1].npages >= 2 /\ gen[2].npages >= 2
    /\ gen[1].path # gen[2].path
    /\ gen[1].reqs[1].sent.cursor = PyStr(SC1)
    /\ gen[2].reqs[1].sent.cursor = PyStr(SC2)
    /\ gen[1].idx = 2 /\ gen[2].idx = 1

====
